---------------------------- MODULE Spec2Model ----------------------------
(***************************************************************************)
(* A model of intake/catalog/remote.py: the RemoteCatalog client and its   *)
(* lazily paginated, two-tier Entries cache.                               *)
(*                                                                         *)
(* The state is the catalog's fields (_page_size, metadata, _len), the     *)
(* fields of its Entries container (_page_cache, _direct_lookup_cache,     *)
(* _page_offset, complete) and the position of the generator that          *)
(* Entries.__iter__ returns.  The server is the environment: a stable,     *)
(* ordered catalog of uniquely named entries, which may be an older server *)
(* that ignores paging and sends every source inline with the metadata, or *)
(* one that declares no length.                                            *)
(* One logical flow owns the cache: metadata is (re)loaded and the cache   *)
(* reset only while no generator is suspended; point lookups may fall      *)
(* between any two steps of an iteration.                                  *)
(*                                                                         *)
(* Besides Spec, smaller specifications follow the parts of the client     *)
(* that Spec leaves constant: the http_args and headers of the requests    *)
(* (SpecParams), the catalogs search() returns (SpecSearch), the opening   *)
(* of an entry by RemoteCatalogEntry.get (SpecOpen), two callers whose     *)
(* lookups overlap at the request (SpecLookups), two generators alive on   *)
(* one Entries (SpecShared), and a page size of zero (SpecAnyPageSize).    *)
(***************************************************************************)
EXTENDS Integers, Sequences, FiniteSets, TLC

\* ------------------------------------------------------------------ bounds
\* The largest number of entries the server holds.
MaxN == 5
\* The largest configured page size.
MaxPageSize == 2
\* Point lookups ask for the names 1..MaxKey.
MaxKey == 2
\* The largest number of entries of the server a search() is sent to.
MaxSearchN == 1
\* The server names its sources 1..MaxScope.
MaxScope == 2
\* The largest number of entries of a server two generators list at once.
MaxIterN == 3

\* Python's None (page_size=None: no pagination; _len=None: no declared length).
None == -1

VARIABLES
    server,        \* the server's catalog: a sequence of distinct names, in its order
    legacy,        \* the server ignores paging hints
    declares,      \* the server's metadata response declares a length
    loaded,        \* the constructor's first _load() has succeeded
    page_size,     \* RemoteCatalog._page_size
    metadata,      \* RemoteCatalog.metadata
    len_,          \* RemoteCatalog._len
    page_cache,    \* Entries._page_cache: an OrderedDict, as a sequence of records
    direct_cache,  \* Entries._direct_lookup_cache: a dict, in insertion order
    page_offset,   \* Entries._page_offset
    complete,      \* Entries.complete
    gen,           \* the generator of Entries.__iter__: where it is suspended
    resumed,       \* the iterate() in progress follows an abandoned one
    yielded,       \* the names the current iterate() has yielded so far
    fetches,       \* the page requests the current iterate() has issued so far
    drains,        \* what the last two fully drained iterate() calls since the
                   \* last reset yielded, oldest first
    lastPage,      \* the length of the last page fetched since the last reset
    ret,           \* the outcome of the last operation, as its caller sees it
    source_id,     \* RemoteCatalog._source_id
    auth_headers,  \* what RemoteCatalog.auth.get_headers() returns
    http_args,     \* RemoteCatalog.http_args, as __init__ and later calls left it
    ctor_http_args,\* RemoteCatalog.http_args as __init__ stored it
    req,           \* the last request the last operation sent, if it sent one
    child,         \* the catalog the last successful search() returned
    plugin_registry, \* the names of the plugins that can be made locally
    response,      \* the response to the last 'open' request
    lookups,       \* the __getitem__ calls that run side by side
    gens,          \* the generators of Entries.__iter__ that are alive at once
    odict_in_c     \* OrderedDict is the C type, which finds out that it was
                   \* changed while it is gone through

vars == <<server, legacy, declares, loaded, page_size, metadata, len_, page_cache,
          direct_cache, page_offset, complete, gen, resumed, yielded, fetches,
          drains, lastPage, ret, source_id, auth_headers, http_args,
          ctor_http_args, req, child, plugin_registry,
          response, lookups, gens, odict_in_c>>

catalog == <<page_size, metadata, len_, loaded>>
entries == <<page_cache, direct_cache, page_offset, complete>>
world   == <<server, legacy, declares>>
conn    == <<source_id, auth_headers, ctor_http_args, plugin_registry,
             odict_in_c>>
rest    == <<response, lookups, gens>>
aside   == <<child, rest>>

\* ------------------------------------------------------------ the server
\* The server's catalog of n entries.  Names are numbers; the server's order
\* is not the order of the names, so that a client that sorted would show.
ServerCatalog(n) == [i \in 1..n |-> n + 1 - i]

Names(seq) == {seq[i] : i \in 1..Len(seq)}

\* The slice of the catalog a page request is answered with.
ServerSlice(offset, size) ==
    LET hi == IF offset + size < Len(server) THEN offset + size ELSE Len(server)
    IN  IF legacy THEN server ELSE SubSeq(server, offset + 1, hi)

\* The sources of the metadata response: all of them when no paging was asked
\* for or the server ignores it, none when page_size 0 was asked for.
ServerInfoSources(paging) == IF paging /\ ~legacy THEN <<>> ELSE server

\* The declared length of the metadata response.
ServerInfoLength == IF declares THEN Len(server) ELSE None

\* The entries a search matches: the view the returned source_id stands for.
ServerSearch == SelectSeq(server, LAMBDA name : name % 2 = 1)

\* The container kind the server gives each of its sources.
ServerContainer(name) == IF name % 2 = 1 THEN "dataframe" ELSE "catalog"

\* The plugins a server may name.
Plugins == {"csv", "parquet"}

\* The 'plugin' field of a response to 'open': none, one name, or a list.
PluginFields ==
    {[form |-> "none", names |-> <<>>]}
    \cup {[form |-> "str", names |-> <<p>>] : p \in Plugins}
    \cup {[form |-> "list", names |-> l] :
              l \in {<<>>} \cup {<<p>> : p \in Plugins}
                        \cup {<<p, q>> : p \in Plugins, q \in Plugins}}

\* The responses to 'open': {plugin, args} for direct access, {container, ...}
\* for a proxy, or both.
OpenResponses ==
    {[status |-> 500, plugin |-> [form |-> "none", names |-> <<>>],
      has_container |-> FALSE]}
    \cup {r \in [status : {200}, plugin : PluginFields,
                  has_container : BOOLEAN] :
              r.plugin.form # "none" \/ r.has_container}

\* No 'open' request was answered.
NoResponse == [status |-> None, plugin |-> [form |-> "none", names |-> <<>>],
               has_container |-> FALSE]

\* ------------------------------------------------- ordered dictionaries
\* A RemoteCatalogEntry.  Two entries of one name built by different calls
\* are different objects: origin names the call that built the object.
Entry(name, ps, origin) == [name |-> name, page_size |-> ps, origin |-> origin]

Keys(od) == [i \in 1..Len(od) |-> od[i].name]

Has(od, k) == \E i \in 1..Len(od) : od[i].name = k

Get(od, k) == od[CHOOSE i \in 1..Len(od) : od[i].name = k]

\* d[k] = v: an existing key keeps its place, a new key goes last.
SetItem(od, v) ==
    IF Has(od, v.name)
    THEN [i \in 1..Len(od) |-> IF od[i].name = v.name THEN v ELSE od[i]]
    ELSE Append(od, v)

RECURSIVE Update(_, _)
\* OrderedDict.update(page): the items of page, set in page's order.
Update(od, page) ==
    IF page = <<>> THEN od
    ELSE Update(SetItem(od, Head(page)), Tail(page))


\* ------------------------------------------------------- RemoteCatalog
\* What an operation hands back to its caller: the key or entry returned, the
\* exception raised ("" when none), the status of the response it received
\* (None when it sent no request) and the number of requests it sent.
Ret(op, key, val, err, status, reqs) ==
    [op |-> op, key |-> key, val |-> val, err |-> err, status |-> status,
     reqs |-> reqs]

\* A Python dict of strings, as the set of its items.
DictKeys(d) == {item[1] : item \in d}

\* d.update(e), as the value d then has.
DictUpdate(d, e) == {item \in d : item[1] \notin DictKeys(e)} \cup e

\* A dict of connection arguments: its 'headers' (always there after
\* __init__) and its 'params', which the caller need not have given.
HttpArgs(headers, has_params, params) ==
    [headers |-> headers, has_params |-> has_params, params |-> params]

\* _get_http_args(params) of a catalog that holds args, the scope sid and an
\* auth that gives the headers auth: what it returns (sent) and what it leaves
\* in the catalog (stored).  headers is the catalog's own dict, and so is
\* merged_params when the catalog holds 'params': update() and the assignment
\* of 'source-id' change them in place; only the outer dict is copied.
get_http_args(args, sid, auth, params) ==
    LET headers == DictUpdate(DictUpdate(args.headers, auth),
                              IF sid # None THEN {<<"source-id", sid>>} ELSE {})
        merged_params == DictUpdate(args.params, params)
    IN  [sent   |-> [headers |-> headers, params |-> merged_params],
         stored |-> HttpArgs(headers, args.has_params,
                             IF args.has_params THEN merged_params
                             ELSE args.params)]

\* A request: its endpoint or action, its headers, its query parameters and
\* the source_id of its body (None when the body has none).
Request(kind, headers, params, body) ==
    [kind |-> kind, headers |-> headers, params |-> params, body |-> body]

NoRequest == Request("none", {}, {}, None)

\* The params of the requests of _load, fetch_page and fetch_by_name.
load_params(ps) ==
    IF ps = None THEN {} ELSE {<<"page_offset", 0>>, <<"page_size", 0>>}

page_params(offset) == {<<"page_offset", offset>>, <<"page_size", page_size>>}

name_params(name) == {<<"name", name>>}

\* The operation sends a request with the arguments _get_http_args gives it.
sends(kind, params, body) ==
    LET args == get_http_args(http_args, source_id, auth_headers, params)
    IN  /\ http_args' = args.stored
        /\ req' = Request(kind, args.sent.headers, args.sent.params, body)

\* The operation sends no request.
no_request ==
    /\ req' = NoRequest
    /\ UNCHANGED http_args

\* fetch_page(page_offset), on a 2xx response: one entry per returned source,
\* in the order returned, each carrying the catalog's page size.
fetch_page(offset) ==
    LET sources == ServerSlice(offset, page_size)
    IN  [i \in 1..Len(sources) |-> Entry(sources[i], page_size, "fetch_page")]

\* A variant of page_merge: the fetched page is left out of the page tier.
page_merge_skipped(pc, page) == pc

\* Entries.__iter__: self._page_cache.update(page).
page_merge(pc, page) == Update(pc, page)

\* A variant of page_error: a failed response is taken for a page.
page_error_swallowed(status) == ""

\* fetch_page: the exception a response status raises.
page_error(status) == IF status # 200 THEN "RemoteCatalogError" ELSE ""

\* The status fetch_by_name(name) is answered with: 404 for a name the server
\* does not hold, unless the server fails.
by_name_status(name, fault) ==
    IF fault THEN 500 ELSE IF name \in Names(server) THEN 200 ELSE 404

\* A variant of by_name_error: 404 is not told from the other failures.
by_name_error_no_404(status) ==
    IF status # 200 THEN "RemoteCatalogError" ELSE ""

\* fetch_by_name: the exception a response status raises.
by_name_error(status) ==
    IF status = 404 THEN "KeyError"
    ELSE IF status # 200 THEN "RemoteCatalogError" ELSE ""

\* fetch_by_name(name), on a 2xx response.
fetch_by_name(name) == Entry(name, page_size, "fetch_by_name")

\* _load: the exception a failed metadata request raises.  The test is made
\* on the text of the HTTP error, which holds the status, the reason and the
\* URL: text403 says that reason or URL hold "403".
load_error(status, text403) ==
    IF status = 403 \/ text403 THEN "AuthenticationFailure"
    ELSE "RemoteCatalogError"

\* A variant of load_page_size: inline sources leave the page size as asked.
load_page_size_kept(ps, sources) == ps

\* _load: the page size after a response with these sources.
load_page_size(ps, sources) == IF sources # <<>> THEN None ELSE ps

\* _load: the entries built from the inline sources (no page size is passed).
load_inline(sources) ==
    [i \in 1..Len(sources) |-> Entry(sources[i], None, "load")]

\* ------------------------------------------------------------- Entries
\* Entries.__init__: the fields of a new container.
init_entries(ps) ==
    [page_cache |-> <<>>, direct_cache |-> <<>>, page_offset |-> 0,
     complete |-> (ps = None)]

\* A variant of reset_entries: the offset survives the reset.
reset_entries_keep_offset(ps) ==
    [page_cache |-> <<>>, direct_cache |-> <<>>, page_offset |-> page_offset,
     complete |-> (ps = None)]

\* Entries.reset: the fields of a cleared container.
reset_entries(ps) ==
    [page_cache |-> <<>>, direct_cache |-> <<>>, page_offset |-> 0,
     complete |-> (ps = None)]

\* A variant of paginating: a complete cache is not asked for pages again.
paginating_unless_complete(ps, cmpl) == ps # None /\ ~cmpl

\* __iter__: after the cached keys, whether the generator goes on to fetch
\* pages.  Only the page size decides; complete is not read.
paginating(ps, cmpl) == ps # None

\* A variant of loop_done: a full page ends the loop too.
loop_done_at_full_page(page, ps) == Len(page) <= ps

\* __iter__: the test that ends the fetch loop after a page.
loop_done(page, ps) == Len(page) < ps

\* A variant of next_offset: the offset is left where it was.
next_offset_stuck(offset, page) == offset

\* A variant of next_offset: the offset moves by the size asked for.
next_offset_by_page_size(offset, page) == offset + page_size

\* __iter__: the offset after a page was merged.
next_offset(offset, page) == offset + Len(page)

\* A variant of getitem_tier: the page tier is not looked at.
getitem_tier_direct_only(dc, pc, key) ==
    IF Has(dc, key) THEN "direct" ELSE "miss"

\* A variant of getitem_tier: the page tier is looked at first.
getitem_tier_page_first(dc, pc, key) ==
    IF Has(pc, key) THEN "page"
    ELSE IF Has(dc, key) THEN "direct" ELSE "miss"

\* __getitem__: the tier that answers key, or "miss".
getitem_tier(dc, pc, key) ==
    IF Has(dc, key) THEN "direct"
    ELSE IF Has(pc, key) THEN "page" ELSE "miss"

\* A variant of getitem_store: an entry already stored is kept.
getitem_store_setdefault(dc, pc, source) ==
    [direct_cache |-> IF Has(dc, source.name) THEN dc ELSE SetItem(dc, source),
     page_cache |-> pc]

\* A variant of getitem_store: one cache for pages and lookups alike.
getitem_store_in_page_cache(dc, pc, source) ==
    [direct_cache |-> dc, page_cache |-> SetItem(pc, source)]

\* __getitem__: the two tiers after a fetched source was cached.
getitem_store(dc, pc, source) ==
    [direct_cache |-> SetItem(dc, source), page_cache |-> pc]

\* The generator of __iter__.  pc: "none" (no generator yet), "closed"
\* (dropped before its end), "new" (made, not started), "cached" (suspended at the yield of the
\* first loop, idx keys of _page_cache yielded), "page" (suspended at the
\* yield of the fetch loop, idx keys of the local page yielded), "done"
\* (returned), "failed" (raised).
Gen(pc, idx, page) == [pc |-> pc, idx |-> idx, page |-> page]

NoGen == Gen("none", 0, <<>>)

\* A RemoteCatalog that search() returns, as its constructor leaves it: it is
\* given the scope and a deep copy of the http_args, and neither page size
\* nor auth.
Searched(sid, args) ==
    [made |-> TRUE, source_id |-> sid, http_args |-> args,
     ctor_http_args |-> args, auth_headers |-> {}, page_size |-> None,
     loaded |-> FALSE, entries |-> init_entries(None)]

\* No search() has returned a catalog.
NoCatalog == [Searched(None, HttpArgs({}, FALSE, {})) EXCEPT !.made = FALSE]

\* The callers of __getitem__ that may run side by side.
Threads == {1, 2}

\* A __getitem__ call: "idle" (not made), "waiting" (inside fetch_by_name, the
\* request sent and not answered) or "done" (returned or raised).
Lookup(pc, key, val, err, status, sent) ==
    [pc |-> pc, key |-> key, val |-> val, err |-> err, status |-> status,
     sent |-> sent]

\* The caches as a call finds them.
Tiers(dc, pc, offset, done) ==
    [direct_cache |-> dc, page_cache |-> pc, page_offset |-> offset,
     complete |-> done]

\* The calls that overlap: each caller's call, the callers that stored an
\* entry, in the order they did, and the caches as the first call found them.
Lookups(before) ==
    [calls   |-> [t \in Threads |-> Lookup("idle", None, <<>>, "", None, 0)],
     writers |-> <<>>,
     before  |-> before]

NoLookups == Lookups(Tiers(<<>>, <<>>, 0, FALSE))

\* One of the generators that are alive at once.  pc: "none", "new" (made, not
\* started), "cached" (suspended at the yield of the first loop), "fetching"
\* (inside fetch_page(offset), the request sent and not answered), "page"
\* (suspended at the yield of the fetch loop), "done" (returned), "failed"
\* (raised err).  size is the length _page_cache had when the first loop
\* began; idx counts the keys the loop it is in has yielded.
SharedGen(pc, idx, size, page, offset, out, err) ==
    [pc |-> pc, idx |-> idx, size |-> size, page |-> page, offset |-> offset,
     yielded |-> out, err |-> err]

NoGens == [t \in Threads |-> SharedGen("none", 0, 0, <<>>, None, <<>>, "")]

Alive(t) == gens[t].pc \in {"new", "cached", "fetching", "page"}

Waiting == \E t \in Threads : lookups.calls[t].pc = "waiting"

Suspended == gen.pc \in {"new", "cached", "page"}

Last(seq) == seq[Len(seq)]

Last2(seq) == IF Len(seq) > 2 THEN Tail(seq) ELSE seq


\* ---------------------------------------------------------------- Init
\* RemoteCatalog.__init__ up to the container's construction: the page size
\* the caller chose, the empty container of Entries.__init__.
\* The state after RemoteCatalog.__init__ with a page_size of sizes.
InitWith(counts, sizes, registries, odicts) ==
    /\ odict_in_c \in odicts
    /\ gens = NoGens
    /\ plugin_registry \in registries
    /\ \E n \in counts : server = ServerCatalog(n)
    /\ legacy \in BOOLEAN
    /\ declares \in BOOLEAN
    /\ page_size \in sizes
    /\ loaded = FALSE
    /\ metadata = "name"
    /\ len_ = None
    /\ page_cache = init_entries(page_size).page_cache
    /\ direct_cache = init_entries(page_size).direct_cache
    /\ page_offset = init_entries(page_size).page_offset
    /\ complete = init_entries(page_size).complete
    /\ gen = NoGen
    /\ resumed = FALSE
    /\ yielded = <<>>
    /\ fetches = <<>>
    /\ drains = <<>>
    /\ lastPage = None
    /\ ret = Ret("init", None, <<>>, "", None, 0)
    /\ req = NoRequest
    /\ child = NoCatalog
    /\ response = NoResponse
    /\ lookups = NoLookups

\* A catalog made with no source_id, the default auth (which gives no header)
\* and no http_args.
InitPlain ==
    /\ source_id = None
    /\ auth_headers = {}
    /\ http_args = HttpArgs({}, FALSE, {})
    /\ ctor_http_args = http_args

\* Catalogs made without a page size or with one of 1..MaxPageSize.
Init == InitWith(0..MaxN, {None} \cup (1..MaxPageSize), {{"csv"}}, {TRUE}) /\ InitPlain

\* Catalogs made with any page size the constructor takes, 0 among them.
InitAnyPageSize ==
    InitWith(0..MaxN, {None} \cup (0..MaxPageSize), {{"csv"}}, {TRUE}) /\ InitPlain

\* Catalogs, made without a page size or with pages of one entry, over a
\* small server that pages and declares its length.
InitSmall ==
    /\ InitWith(0..MaxSearchN, {None, 1}, {{"csv"}}, {TRUE})
    /\ ~legacy
    /\ declares

\* Catalogs made with or without a source_id and an auth that gives a header,
\* and with http_args that hold no 'params'.
InitSearch ==
    /\ InitSmall
    /\ source_id \in {None} \cup (1..(MaxScope - 1))
    /\ auth_headers \in {{}, {<<"authorization", 0>>}}
    /\ http_args = HttpArgs({}, FALSE, {})
    /\ ctor_http_args = http_args

\* Catalogs made with http_args that hold 'params', or with a source_id and
\* an auth that gives a header, or with none of these.
InitParams ==
    /\ InitSmall
    /\ \/ /\ source_id = None
          /\ auth_headers = {}
          /\ http_args \in {HttpArgs({}, FALSE, {}),
                            HttpArgs({}, TRUE, {<<"api_key", 0>>})}
       \/ /\ source_id = 1
          /\ auth_headers = {<<"authorization", 0>>}
          /\ http_args = HttpArgs({}, FALSE, {})
    /\ ctor_http_args = http_args

\* ------------------------------------------------------------- actions
\* RemoteCatalog._load(), at construction and at every reload.
load ==
    /\ ~Suspended
    /\ \E status \in {200, 403, 500}, text403 \in BOOLEAN :
        \/ /\ status # 200
           /\ ret' = Ret("load", None, <<>>, load_error(status, text403),
                         status, 1)
           /\ sends("info", load_params(page_size), None)
           /\ UNCHANGED <<world, conn, aside, catalog, entries, gen, resumed, yielded, fetches,
                          drains, lastPage>>
        \/ /\ status = 200
           /\ ~text403
           /\ LET sources == ServerInfoSources(page_size # None)
                  cleared == reset_entries(page_size)
              IN  /\ metadata' = "metadata"
                  /\ len_' = ServerInfoLength
                  /\ page_size' = load_page_size(page_size, sources)
                  /\ page_cache' = Update(cleared.page_cache,
                                          load_inline(sources))
                  /\ direct_cache' = cleared.direct_cache
                  /\ page_offset' = cleared.page_offset
                  /\ complete' = cleared.complete
           /\ loaded' = TRUE
           /\ drains' = <<>>
           /\ lastPage' = None
           /\ ret' = Ret("load", None, <<>>, "", status, 1)
           /\ sends("info", load_params(page_size), None)
           /\ UNCHANGED <<world, conn, aside, gen, resumed, yielded, fetches>>

\* Entries.reset().
reset ==
    /\ loaded
    /\ ~Suspended
    /\ LET cleared == reset_entries(page_size)
       IN  /\ page_cache' = cleared.page_cache
           /\ direct_cache' = cleared.direct_cache
           /\ page_offset' = cleared.page_offset
           /\ complete' = cleared.complete
    /\ drains' = <<>>
    /\ lastPage' = None
    /\ ret' = Ret("reset", None, <<>>, "", None, 0)
    /\ no_request
    /\ UNCHANGED <<world, conn, aside, catalog, gen, resumed, yielded, fetches>>

\* iter(entries): a new generator; none of __iter__'s body has run.
iter ==
    /\ loaded
    /\ ~Suspended
    /\ gen' = Gen("new", 0, <<>>)
    /\ resumed' = (gen.pc = "closed")
    /\ yielded' = <<>>
    /\ fetches' = <<>>
    /\ ret' = Ret("iter", None, <<>>, "", None, 0)
    /\ no_request
    /\ UNCHANGED <<world, conn, aside, catalog, entries, drains, lastPage>>

\* The generator yields key and is suspended as g.
Yield(key, g, status, reqs) ==
    /\ gen' = g
    /\ UNCHANGED resumed
    /\ yielded' = Append(yielded, key)
    /\ ret' = Ret("next", key, <<>>, "", status, reqs)
    /\ UNCHANGED drains

\* The generator returns: its caller sees StopIteration.
Return(status, reqs) ==
    /\ gen' = Gen("done", 0, <<>>)
    /\ resumed' = FALSE
    /\ drains' = Last2(Append(drains, yielded))
    /\ ret' = Ret("next", None, <<>>, "StopIteration", status, reqs)
    /\ UNCHANGED yielded

\* The generator is inside a call of next() that has not returned: its while
\* loop got an empty page that did not end it, and goes round.
InLoop == gen.pc = "page" /\ gen.page = <<>>

\* The first loop of __iter__ has keys of _page_cache left to yield.
CachedLeft == gen.pc \in {"new", "cached"} /\ gen.idx < Len(page_cache)

\* The inner loop over the fetched page has keys left to yield.
PageLeft == gen.pc = "page" /\ gen.idx < Len(gen.page)

\* The first loop is over.
CachedOver == gen.pc \in {"new", "cached"} /\ gen.idx >= Len(page_cache)

\* The inner loop over the fetched page is over.
PageOver == gen.pc = "page" /\ gen.idx >= Len(gen.page)

\* A loop that never ends is followed for this many requests of one iterate()
\* (one that ends sends at most one request for each entry and one more).
MaxFetches == MaxN + 3

\* The generator is about to call fetch_page.
AtFetch ==
    \/ CachedOver /\ paginating(page_size, complete)
    \/ PageOver /\ ~loop_done(gen.page, page_size)

\* The while loop of Entries.__iter__ after fetch_page returned page: the page
\* is merged and the offset advanced before any of its keys is yielded.
PageFetched(page, status) ==
    /\ page_cache' = page_merge(page_cache, page)
    /\ page_offset' = next_offset(page_offset, page)
    /\ fetches' = Append(fetches, [offset |-> page_offset,
                                   len |-> Len(page)])
    /\ lastPage' = Len(page)
    /\ IF page # <<>>
       THEN /\ Yield(page[1].name, Gen("page", 1, page), status, 1)
            /\ UNCHANGED complete
       ELSE IF loop_done(page, page_size)
       THEN /\ complete' = TRUE
            /\ Return(status, 1)
       ELSE \* an empty page that does not end the loop: the
            \* loop goes round again without a yield
            /\ gen' = Gen("page", 0, page)
            /\ UNCHANGED resumed
            /\ ret' = Ret("loop", None, <<>>, "", status, 1)
            /\ UNCHANGED <<complete, yielded, drains>>

\* next(generator): __iter__ runs to its next yield, its return or a raise.
next_key ==
    /\ Suspended
    /\ \/ /\ CachedLeft
          /\ Yield(page_cache[gen.idx + 1].name,
                   Gen("cached", gen.idx + 1, <<>>), None, 0)
          /\ no_request
          /\ UNCHANGED <<world, conn, aside, catalog, entries, fetches, lastPage>>
       \/ /\ CachedOver
          /\ ~paginating(page_size, complete)
          /\ Return(None, 0)
          /\ no_request
          /\ UNCHANGED <<world, conn, aside, catalog, entries, fetches, lastPage>>
       \/ /\ PageLeft
          /\ Yield(gen.page[gen.idx + 1].name,
                   Gen("page", gen.idx + 1, gen.page), None, 0)
          /\ no_request
          /\ UNCHANGED <<world, conn, aside, catalog, entries, fetches, lastPage>>
       \/ /\ PageOver
          /\ loop_done(gen.page, page_size)
          /\ complete' = TRUE
          /\ Return(None, 0)
          /\ no_request
          /\ UNCHANGED <<world, conn, aside, catalog, page_cache, direct_cache,
                         page_offset, fetches, lastPage>>
       \/ /\ AtFetch
          /\ page_error(500) # ""
          /\ gen' = Gen("failed", 0, <<>>)
          /\ resumed' = FALSE
          /\ fetches' = Append(fetches, [offset |-> page_offset, len |-> None])
          /\ ret' = Ret("next", None, <<>>, page_error(500), 500, 1)
          /\ sends("info", page_params(page_offset), None)
          /\ UNCHANGED <<world, conn, aside, catalog, entries, yielded, drains, lastPage>>
       \/ /\ AtFetch
          /\ Len(fetches) < MaxFetches
          /\ \E status \in {200, 500} :
             /\ page_error(status) = ""
             /\ LET \* the body of a failed response holds no sources
                    page == IF status = 200 THEN fetch_page(page_offset)
                            ELSE <<>>
                IN  PageFetched(page, status)
          /\ sends("info", page_params(page_offset), None)
          /\ UNCHANGED <<world, conn, aside, catalog, direct_cache>>


\* The outcomes of a page request of a generator that is run within one
\* operation: None for a server that answers every request, else the number of
\* requests it answers before one fails.
Answered == {None, 0, 1}

RECURSIVE fetch_loop(_, _, _, _, _, _)
\* The while loop of Entries.__iter__, run from the offset until the generator
\* ends, or until its first yield when once is set: what it leaves in the
\* cache, the requests it sent, the keys it yielded and how it ended ("yield",
\* "return", the exception raised, or "loop" when it goes round for ever
\* because an empty page neither ended it nor moved the offset, or when the
\* log is MaxFetches long).
fetch_loop(once, good, pc, offset, log, out) ==
    IF good = 0
    THEN [end |-> page_error(500), page_cache |-> pc, page_offset |-> offset,
          complete |-> complete, yielded |-> out,
          fetches |-> Append(log, [offset |-> offset, len |-> None])]
    ELSE LET page == fetch_page(offset)
             pc2  == page_merge(pc, page)
             off2 == next_offset(offset, page)
             log2 == Append(log, [offset |-> offset, len |-> Len(page)])
             left == [end |-> "yield", page_cache |-> pc2,
                      page_offset |-> off2, complete |-> complete,
                      yielded |-> out, fetches |-> log2]
         IN  IF once /\ page # <<>>
             THEN [left EXCEPT !.yielded = Append(out, page[1].name)]
             ELSE IF loop_done(page, page_size)
             THEN [left EXCEPT !.end = "return", !.complete = TRUE,
                               !.yielded = out \o Keys(page)]
             ELSE IF page = <<>> \/ Len(log2) >= MaxFetches
             THEN [left EXCEPT !.end = "loop"]
             ELSE fetch_loop(once, IF good > 0 THEN good - 1 ELSE good,
                             pc2, off2, log2, out \o Keys(page))

\* A new generator of Entries.__iter__ run within one operation: by one
\* next() when once is set (next(iter(self))), else to its end (for _ in self).
consume(once, good) ==
    LET cached == [end |-> "yield", page_cache |-> page_cache,
                   page_offset |-> page_offset, complete |-> complete,
                   yielded |-> <<>>, fetches |-> <<>>]
    IN  IF once /\ page_cache # <<>>
        THEN [cached EXCEPT !.yielded = <<page_cache[1].name>>]
        ELSE IF ~paginating(page_size, complete)
        THEN [cached EXCEPT !.end = "return", !.yielded = Keys(page_cache)]
        ELSE fetch_loop(once, good, page_cache, page_offset, <<>>,
                        Keys(page_cache))

\* The length of the last page a log of requests received, if any.
last_page(log, before) ==
    LET got == {i \in 1..Len(log) : log[i].len # None}
    IN  IF got = {} THEN before
        ELSE log[CHOOSE i \in got : \A j \in got : j <= i].len

\* The state a generator run by consume leaves: the cache, the logs of the
\* iteration and the generator, which is dropped after its yield.
consumed(r) ==
    /\ page_cache' = r.page_cache
    /\ page_offset' = r.page_offset
    /\ complete' = r.complete
    /\ yielded' = r.yielded
    /\ fetches' = r.fetches
    /\ lastPage' = last_page(r.fetches, lastPage)
    /\ resumed' = (r.end = "loop" /\ gen.pc = "closed")
    /\ gen' = IF r.end = "yield" THEN Gen("closed", 0, <<>>)
              ELSE IF r.end = "return" THEN Gen("done", 0, <<>>)
              ELSE IF r.end = "loop" THEN Gen("page", 0, <<>>)
              ELSE Gen("failed", 0, <<>>)
    /\ drains' = IF r.end = "return" THEN Last2(Append(drains, r.yielded))
                 ELSE drains
    /\ IF r.fetches = <<>> THEN no_request
       ELSE sends("info", page_params(Last(r.fetches).offset), None)
    /\ UNCHANGED <<world, conn, aside, catalog, direct_cache>>

\* The status of the last response a run by consume received.
consumed_status(r) ==
    IF r.fetches = <<>> THEN None
    ELSE IF Last(r.fetches).len = None THEN 500 ELSE 200

\* Entries.cached_items(): the page tier, then the direct tier.
cached_items == page_cache \o direct_cache

\* A variant of len_value: the cached entries are counted.
len_value_cached(declared, drained) ==
    IF declared = None THEN drained ELSE Len(cached_items)

\* RemoteCatalog.__len__: the declared length, or else the count of a drain.
len_value(declared, drained) ==
    IF declared = None THEN drained ELSE declared

\* RemoteCatalog.__len__().
catalog_len ==
    /\ loaded
    /\ ~InLoop
    /\ \/ /\ len_ # None
          /\ ret' = Ret("len", None, <<len_value(len_, None)>>, "", None, 0)
          /\ no_request
          /\ UNCHANGED <<world, conn, aside, catalog, entries, gen, resumed, yielded, fetches,
                         drains, lastPage>>
       \/ /\ len_ = None
          /\ ~Suspended
          /\ \E good \in Answered :
               LET r == consume(FALSE, good)
               IN  /\ consumed(r)
                   /\ ret' = IF r.end = "return"
                             THEN Ret("len", None,
                                      <<len_value(len_, Len(r.yielded))>>, "",
                                      consumed_status(r), Len(r.fetches))
                             ELSE IF r.end = "loop"
                             THEN Ret("loop", None, <<>>, "",
                                      consumed_status(r), Len(r.fetches))
                             ELSE Ret("len", None, <<>>, r.end,
                                      consumed_status(r), Len(r.fetches))

\* RemoteCatalog._ipython_key_completions_().
key_completions ==
    /\ loaded
    /\ ~InLoop
    /\ \/ /\ complete
          /\ ret' = Ret("completions", None, <<Keys(cached_items)>>, "",
                        None, 0)
          /\ no_request
          /\ UNCHANGED <<world, conn, aside, catalog, entries, gen, resumed, yielded, fetches,
                         drains, lastPage>>
       \/ /\ ~complete
          /\ ~Suspended
          /\ \E good \in Answered :
               LET r == consume(TRUE, good)
               IN  /\ consumed(r)
                   /\ ret' = IF r.end = "yield"
                             THEN Ret("completions", None,
                                      <<Keys(r.page_cache \o direct_cache)>>,
                                      "", consumed_status(r), Len(r.fetches))
                             ELSE IF r.end = "loop"
                             THEN Ret("loop", None, <<>>, "",
                                      consumed_status(r), Len(r.fetches))
                             ELSE Ret("completions", None, <<>>,
                                      IF r.end = "return" THEN "StopIteration"
                                      ELSE r.end,
                                      consumed_status(r), Len(r.fetches))

\* A variant of search_body: the request names no scope.
search_body_unscoped(sid) == None

\* search: the source_id of the request's body.
search_body(sid) == sid

\* search: the exception a response status raises.
search_error(status) == IF status # 200 THEN "RemoteCatalogError" ELSE ""

\* RemoteCatalog.search(): the catalog it returns is made from the http_args
\* the request left in this catalog.
search ==
    /\ loaded
    /\ ~InLoop
    /\ sends("search", {}, search_body(source_id))
    /\ \E status \in {200, 500} :
         IF search_error(status) # ""
         THEN /\ ret' = Ret("search", None, <<>>, search_error(status),
                            status, 1)
              /\ UNCHANGED child
         ELSE \E sid \in (1..MaxScope) \ {source_id} :
                /\ child' = Searched(sid, http_args')
                /\ ret' = Ret("search", sid, <<>>, "", status, 1)
    /\ UNCHANGED <<world, conn, rest, catalog, entries, gen, resumed,
                   yielded, fetches, drains, lastPage>>

\* A request of the catalog search() returned: only that catalog's http_args
\* are the ones _get_http_args works on.
child_sends(kind, params) ==
    LET args == get_http_args(child.http_args, child.source_id,
                              child.auth_headers, params)
    IN  /\ req' = Request(kind, args.sent.headers, args.sent.params, None)
        /\ UNCHANGED http_args

\* What a request leaves in the http_args of the catalog search() returned.
child_args(params) ==
    get_http_args(child.http_args, child.source_id, child.auth_headers,
                  params).stored

\* _load() of the catalog search() returned.
child_load ==
    /\ child.made
    /\ child_sends("info", load_params(child.page_size))
    /\ \E status \in {200, 403, 500}, text403 \in BOOLEAN :
         IF status # 200
         THEN /\ ret' = Ret("child.load", None, <<>>,
                            load_error(status, text403), status, 1)
              /\ child' = [child EXCEPT
                              !.http_args = child_args(load_params(child.page_size))]
         ELSE /\ ~text403
              /\ ret' = Ret("child.load", None, <<>>, "", status, 1)
              /\ child' = [child EXCEPT
                    !.http_args = child_args(load_params(child.page_size)),
                    !.loaded = TRUE,
                    !.entries = [reset_entries(child.page_size) EXCEPT
                                    !.page_cache = load_inline(ServerSearch)]]
    /\ UNCHANGED <<world, conn, rest, catalog, entries, gen, resumed,
                   yielded, fetches, drains, lastPage>>

\* __getitem__(key) of the entries of the catalog search() returned.
child_getitem(key) ==
    /\ child.loaded
    /\ LET dc   == child.entries.direct_cache
           pc   == child.entries.page_cache
           tier == getitem_tier(dc, pc, key)
       IN  \/ /\ tier # "miss"
              /\ ret' = Ret("child.getitem", key,
                            <<Get(IF tier = "direct" THEN dc ELSE pc, key)>>,
                            "", None, 0)
              /\ req' = NoRequest
              /\ UNCHANGED <<http_args, child>>
           \/ /\ tier = "miss"
              /\ child_sends("source", name_params(key))
              /\ \E fault \in BOOLEAN :
                   LET status == IF fault THEN 500
                                 ELSE IF key \in Names(ServerSearch) THEN 200
                                 ELSE 404
                       source == Entry(key, child.page_size, "fetch_by_name")
                       stored == getitem_store(dc, pc, source)
                   IN  /\ ret' = Ret("child.getitem", key,
                                     IF by_name_error(status) # "" THEN <<>>
                                     ELSE <<source>>,
                                     by_name_error(status), status, 1)
                       /\ child' = [child EXCEPT
                             !.http_args = child_args(name_params(key)),
                             !.entries =
                                IF by_name_error(status) # "" THEN @
                                ELSE [@ EXCEPT
                                        !.direct_cache = stored.direct_cache,
                                        !.page_cache = stored.page_cache]]
    /\ UNCHANGED <<world, conn, rest, catalog, entries, gen, resumed,
                   yielded, fetches, drains, lastPage>>

\* open_remote: pl = [pl] if isinstance(pl, str) else pl.
plugin_list(field) ==
    IF field.form = "str" THEN <<field.names[1]>> ELSE field.names

\* open_remote(entry, container), given the response to its POST: the local
\* source made by the first plugin of the response that is in the registry,
\* or else the proxy container_map[container] makes, for which 'container' is
\* popped from the response; or the exception raised.
open_remote(name, container, answer) ==
    LET pl    == plugin_list(answer.plugin)
        local == {i \in 1..Len(pl) : pl[i] \in plugin_registry}
        none  == [kind |-> "none", plugin |-> "", container |-> "",
                  name |-> name, err |-> ""]
    IN  IF answer.status >= 400
        THEN [none EXCEPT !.err = "Exception"]
        ELSE IF answer.plugin.form # "none" /\ local # {}
        THEN [none EXCEPT !.kind = "direct",
                 !.plugin = pl[CHOOSE i \in local : \A j \in local : i <= j]]
        ELSE IF ~answer.has_container
        THEN [none EXCEPT !.err = "KeyError"]
        ELSE [none EXCEPT !.kind = "proxy", !.container = container]

\* RemoteCatalogEntry.get() of a cached entry: one 'open' POST, with the
\* entry's copy of the http_args and the auth headers.
entry_get(key) ==
    /\ ~InLoop
    /\ Has(cached_items, key)
    /\ \E answer \in OpenResponses :
         LET source == open_remote(key, ServerContainer(key), answer)
         IN  /\ response' = answer
             /\ ret' = Ret("get", key,
                           IF source.err # "" THEN <<>> ELSE <<source>>,
                           source.err, answer.status, 1)
    /\ req' = Request("open", DictUpdate(http_args.headers, auth_headers),
                      http_args.params, None)
    /\ UNCHANGED <<world, conn, child, lookups, gens, catalog, entries, gen,
                   resumed, yielded, fetches, drains, lastPage, http_args>>

\* The caller drops a suspended generator (a break out of its for loop).
close ==
    /\ Suspended
    /\ ~InLoop
    /\ gen' = Gen("closed", 0, <<>>)
    /\ resumed' = FALSE
    /\ ret' = Ret("close", None, <<>>, "", None, 0)
    /\ no_request
    /\ UNCHANGED <<world, conn, aside, catalog, entries, yielded, fetches, drains, lastPage>>

\* Entries.__getitem__(key).
getitem(key) ==
    /\ loaded
    /\ ~InLoop
    /\ LET tier == getitem_tier(direct_cache, page_cache, key)
       IN  \/ /\ tier = "direct"
              /\ ret' = Ret("getitem", key, <<Get(direct_cache, key)>>, "",
                            None, 0)
              /\ no_request
              /\ UNCHANGED entries
           \/ /\ tier = "page"
              /\ ret' = Ret("getitem", key, <<Get(page_cache, key)>>, "",
                            None, 0)
              /\ no_request
              /\ UNCHANGED entries
           \/ /\ tier = "miss"
              /\ sends("source", name_params(key), None)
              /\ \E fault \in BOOLEAN :
                   LET status == by_name_status(key, fault)
                       source == fetch_by_name(key)
                       stored == getitem_store(direct_cache, page_cache, source)
                   IN  IF by_name_error(status) # ""
                       THEN /\ ret' = Ret("getitem", key, <<>>,
                                          by_name_error(status), status, 1)
                            /\ UNCHANGED entries
                       ELSE /\ direct_cache' = stored.direct_cache
                            /\ page_cache' = stored.page_cache
                            /\ ret' = Ret("getitem", key, <<source>>, "",
                                          status, 1)
                            /\ UNCHANGED <<page_offset, complete>>
    /\ UNCHANGED <<world, conn, aside, catalog, gen, resumed, yielded, fetches, drains,
                 lastPage>>

\* The entry a caller's fetch_by_name(key) makes: every call makes its own.
fetched_by(t, key) ==
    [fetch_by_name(key) EXCEPT
        !.origin = IF t = 1 THEN "fetch_by_name, caller 1"
                   ELSE "fetch_by_name, caller 2"]

\* Entries.__getitem__(key) of caller t, up to the point where it returns from
\* a cache or waits for the answer to its request.  A call made while no
\* other waits opens a new set of overlapping calls, of which each caller
\* makes one.
lookup_begin(t, key) ==
    /\ loaded
    /\ ~InLoop
    /\ Waiting => lookups.calls[t].pc = "idle"
    /\ LET now  == IF Waiting THEN lookups
                   ELSE Lookups(Tiers(direct_cache, page_cache, page_offset,
                                      complete))
           tier == getitem_tier(direct_cache, page_cache, key)
           hit  == Get(IF tier = "direct" THEN direct_cache ELSE page_cache,
                       key)
       IN  IF tier # "miss"
           THEN /\ lookups' = [now EXCEPT !.calls[t] =
                                  Lookup("done", key, <<hit>>, "", None, 0)]
                /\ ret' = Ret("getitem", key, <<hit>>, "", None, 0)
                /\ no_request
           ELSE /\ lookups' = [now EXCEPT !.calls[t] =
                                  Lookup("waiting", key, <<>>, "", None, 1)]
                /\ sends("source", name_params(key), None)
                /\ UNCHANGED ret
    /\ UNCHANGED <<world, conn, child, response, gens, catalog, entries, gen,
                   resumed, yielded, fetches, drains, lastPage>>

\* Entries.__getitem__(key) of caller t, from the answer to its request on:
\* the fetched entry is stored and returned, or the error is raised.
lookup_response(t) ==
    /\ lookups.calls[t].pc = "waiting"
    /\ \E fault \in BOOLEAN :
         LET key    == lookups.calls[t].key
             status == by_name_status(key, fault)
             source == fetched_by(t, key)
             stored == getitem_store(direct_cache, page_cache, source)
         IN  IF by_name_error(status) # ""
             THEN /\ lookups' = [lookups EXCEPT !.calls[t] =
                                    Lookup("done", key, <<>>,
                                           by_name_error(status), status, 1)]
                  /\ ret' = Ret("getitem", key, <<>>, by_name_error(status),
                                status, 1)
                  /\ UNCHANGED entries
             ELSE /\ direct_cache' = stored.direct_cache
                  /\ page_cache' = stored.page_cache
                  /\ lookups' = [lookups EXCEPT
                                    !.calls[t] = Lookup("done", key, <<source>>,
                                                        "", status, 1),
                                    !.writers = Append(@, t)]
                  /\ ret' = Ret("getitem", key, <<source>>, "", status, 1)
                  /\ UNCHANGED <<page_offset, complete>>
    /\ UNCHANGED <<world, conn, child, response, gens, catalog, gen, resumed,
                   yielded, fetches, drains, lastPage, req, http_args>>

\* iter(entries) of caller t, while the other caller's generator may be alive.
shared_iter(t) ==
    /\ loaded
    /\ ~Alive(t)
    /\ gens' = [gens EXCEPT ![t] = SharedGen("new", 0, 0, <<>>, None, <<>>, "")]
    /\ ret' = Ret("iter", None, <<>>, "", None, 0)
    /\ no_request
    /\ UNCHANGED <<world, conn, child, response, lookups, catalog, entries, gen,
                   resumed, yielded, fetches, drains, lastPage>>

\* The step of the first loop of __iter__ (for key in self._page_cache) in a
\* generator that has yielded idx keys of a dictionary that held size keys
\* when the loop began: "yield", "over", or "raise" when the C OrderedDict
\* finds that keys were added since.  The Python OrderedDict walks its linked
\* list and comes to the keys added since.
cached_step(idx, size) ==
    IF odict_in_c
    THEN IF idx >= size THEN "over"
         ELSE IF Len(page_cache) # size THEN "raise" ELSE "yield"
    ELSE IF idx < Len(page_cache) THEN "yield" ELSE "over"

\* Generator t yields key and is suspended as g.
shared_yield(t, key, g) ==
    /\ gens' = [gens EXCEPT ![t] = [g EXCEPT !.yielded = Append(@, key)]]
    /\ ret' = Ret("next", key, <<>>, "", None, 0)

\* Generator t returns.
shared_return(t) ==
    /\ gens' = [gens EXCEPT ![t] = [@ EXCEPT !.pc = "done"]]
    /\ ret' = Ret("next", None, <<>>, "StopIteration", None, 0)

\* Generator t calls fetch_page(self._page_offset) and waits for the answer.
shared_request(t) ==
    /\ gens' = [gens EXCEPT ![t] = [@ EXCEPT !.pc = "fetching",
                                             !.offset = page_offset]]
    /\ sends("info", page_params(page_offset), None)
    /\ UNCHANGED <<ret, entries>>

\* next(generator) of caller t: __iter__ runs to its next yield, to its return
\* or raise, or into fetch_page, where it waits for the server.
shared_next(t) ==
    /\ gens[t].pc \in {"new", "cached", "page"}
    /\ LET g    == gens[t]
           size == IF g.pc = "new" THEN Len(page_cache) ELSE g.size
           step == IF g.pc = "page" THEN "page" ELSE cached_step(g.idx, size)
       IN  \/ /\ step = "yield"
              /\ shared_yield(t, page_cache[g.idx + 1].name,
                              [g EXCEPT !.pc = "cached", !.idx = g.idx + 1,
                                        !.size = size])
              /\ no_request
              /\ UNCHANGED entries
           \/ /\ step = "raise"
              /\ gens' = [gens EXCEPT ![t] = [g EXCEPT !.pc = "failed",
                                                       !.err = "RuntimeError"]]
              /\ ret' = Ret("next", None, <<>>, "RuntimeError", None, 0)
              /\ no_request
              /\ UNCHANGED entries
           \/ /\ step = "over"
              /\ ~paginating(page_size, complete)
              /\ shared_return(t)
              /\ no_request
              /\ UNCHANGED entries
           \/ /\ step = "over"
              /\ paginating(page_size, complete)
              /\ shared_request(t)
           \/ /\ step = "page"
              /\ g.idx < Len(g.page)
              /\ shared_yield(t, g.page[g.idx + 1].name,
                              [g EXCEPT !.idx = g.idx + 1])
              /\ no_request
              /\ UNCHANGED entries
           \/ /\ step = "page"
              /\ g.idx >= Len(g.page)
              /\ loop_done(g.page, page_size)
              /\ complete' = TRUE
              /\ shared_return(t)
              /\ no_request
              /\ UNCHANGED <<page_cache, direct_cache, page_offset>>
           \/ /\ step = "page"
              /\ g.idx >= Len(g.page)
              /\ ~loop_done(g.page, page_size)
              /\ shared_request(t)
    /\ UNCHANGED <<world, conn, child, response, lookups, catalog, gen,
                   resumed, yielded, fetches, drains, lastPage>>

\* fetch_page(offset) of generator t is answered: the page is merged, the
\* shared offset moved by its length, and its first key yielded; an empty
\* page ends the generator (the page size is at least 1).
shared_fetched(t) ==
    /\ gens[t].pc = "fetching"
    /\ page_size # None /\ page_size >= 1
    /\ LET g    == gens[t]
           page == fetch_page(g.offset)
       IN  /\ page_cache' = page_merge(page_cache, page)
           /\ page_offset' = next_offset(page_offset, page)
           /\ IF page # <<>>
              THEN /\ shared_yield(t, page[1].name,
                                   [g EXCEPT !.pc = "page", !.idx = 1,
                                             !.page = page])
                   /\ UNCHANGED complete
              ELSE /\ complete' = TRUE
                   /\ gens' = [gens EXCEPT ![t] = [g EXCEPT !.pc = "done",
                                                            !.page = page]]
                   /\ ret' = Ret("next", None, <<>>, "StopIteration", 200, 1)
    /\ UNCHANGED <<world, conn, child, response, lookups, catalog,
                   direct_cache, gen, resumed, yielded, fetches, drains,
                   lastPage, req, http_args>>

Next ==
    \/ load
    \/ reset
    \/ iter
    \/ next_key
    \/ close
    \/ \E key \in 1..MaxKey : getitem(key)
    \/ catalog_len
    \/ key_completions

Spec == Init /\ [][Next]_vars

SpecAnyPageSize == InitAnyPageSize /\ [][Next]_vars

\* The requests of a catalog: metadata, pages, entries by name, searches.
NextParams ==
    \/ load
    \/ iter
    \/ next_key
    \/ close
    \/ \E key \in 1..(Len(server) + 1) : getitem(key)
    \/ search

SpecParams == InitParams /\ [][NextParams]_vars

\* The catalog, its searches and the catalog the last search returned.
NextSearch ==
    \/ NextParams
    \/ child_load
    \/ \E key \in 1..(Len(server) + 1) : child_getitem(key)

SpecSearch == InitSearch /\ [][NextSearch]_vars

\* Catalogs with any registry of local plugins.
InitOpen ==
    /\ InitWith(0..MaxSearchN, {None, 1}, SUBSET Plugins, {TRUE})
    /\ InitPlain

\* The entries of a catalog, listed or looked up, and opened.
NextOpen ==
    \/ load
    \/ iter
    \/ next_key
    \/ \E key \in 1..(Len(server) + 1) : getitem(key)
    \/ \E key \in 1..(Len(server) + 1) : entry_get(key)

SpecOpen == InitOpen /\ [][NextOpen]_vars

\* One flow lists the catalog while no lookup waits; two callers look names
\* up side by side.
NextLookups ==
    \/ ~Waiting /\ load
    \/ ~Waiting /\ iter
    \/ ~Waiting /\ next_key
    \/ \E t \in Threads, key \in 1..(Len(server) + 1) : lookup_begin(t, key)
    \/ \E t \in Threads : lookup_response(t)

\* A plain catalog on which no lookup was made.
InitLookups == InitSmall /\ InitPlain

SpecLookups == InitLookups /\ [][NextLookups]_vars

\* Plain catalogs over a server that pages, with either OrderedDict.
InitShared ==
    /\ InitWith(0..MaxIterN, {None} \cup (1..MaxPageSize), {{"csv"}}, BOOLEAN)
    /\ InitPlain
    /\ ~legacy
    /\ declares

\* Two callers list the entries at once: their generators are advanced in
\* any order, and each may wait for a page while the other goes on.
NextShared ==
    \/ (\A t \in Threads : ~Alive(t)) /\ load
    \/ \E t \in Threads : shared_iter(t)
    \/ \E t \in Threads : shared_next(t)
    \/ \E t \in Threads : shared_fetched(t)

SpecShared == InitShared /\ [][NextShared]_vars

\* ------------------------------------------------------------ properties
\* The last operation was the next() at which the generator returned.
Returned == ret.op = "next" /\ ret.err = "StopIteration"

\* The iterate() whose log is in yielded and fetches began after an earlier
\* iterate() was fully drained, with no reset since.
LaterIterate == drains # <<>> /\ (gen.pc # "done" \/ Len(drains) = 2)

\* C1, as stated: with pagination enabled, once an iterate() was fully drained
\* every later iterate() issues no page request at all.
C1_NoFetchAfterDrain ==
    (page_size # None /\ LaterIterate) => fetches = <<>>

\* C1, amended: with pagination enabled, once an iterate() was fully drained a
\* later iterate() issues no request while it yields the cached entries and at
\* most one request in all: at offset N, the number of entries, where the
\* server has nothing left (it answers with an empty page, or fails).  A later
\* iterate() that is fully drained has issued exactly that one request.
C1_OneEmptyFetchAfterDrain ==
    (page_size # None /\ LaterIterate) =>
        /\ complete
        /\ Len(fetches) <= 1
        /\ \A i \in 1..Len(fetches) :
              /\ fetches[i].offset = Len(server)
              /\ fetches[i].len \in {0, None}
        /\ (gen.pc \in {"new", "cached"} => fetches = <<>>)
        /\ (gen.pc = "done" => fetches = <<[offset |-> Len(server), len |-> 0]>>)

\* C1's case: a second iterate() was drained over a paginated catalog of
\* several pages, and sent one request.
C1_Witness ==
    /\ page_size # None
    /\ gen.pc = "done"
    /\ Len(drains) = 2
    /\ Len(server) > page_size
    /\ fetches = <<[offset |-> Len(server), len |-> 0]>>

\* C2: with pagination enabled, every fully drained iterate() since the last
\* reset yielded exactly the server's sequence of names, each once and in the
\* server's order; so two successive ones yielded the same sequence.
C2_DrainsInServerOrder ==
    page_size # None =>
        /\ \A i \in 1..Len(drains) : drains[i] = server
        /\ (Len(drains) = 2 => drains[1] = drains[2])

\* C2's case: two drained iterate() calls over a catalog of several pages.
C2_Witness ==
    /\ page_size # None
    /\ Len(server) > page_size
    /\ Len(drains) = 2
    /\ drains[1] = server
    /\ drains[2] = server

\* C3, as stated: in every reachable state complete is true iff pagination is
\* disabled or the last fetched page had fewer entries than the page size.
C3_CompleteIff ==
    complete <=> (page_size = None \/ (lastPage # None /\ lastPage < page_size))

\* C4: during an iterate() with pagination enabled every fetched page but the
\* last is full and is followed by a request at the offset advanced by the
\* page size; the generator returns only after a page shorter than the page
\* size, with complete set; complete is never set without such a page; and
\* a generator that has yielded all of a full page requests the next one at
\* the advanced offset.
C4_FetchLog ==
    page_size # None =>
        /\ \A i \in 1..(Len(fetches) - 1) :
              /\ fetches[i].len = page_size
              /\ fetches[i + 1].offset = fetches[i].offset + page_size
        /\ (Returned =>
              /\ fetches # <<>>
              /\ Last(fetches).len # None
              /\ Last(fetches).len < page_size
              /\ complete)
        /\ (complete => lastPage # None /\ lastPage < page_size)

C4_FullPageFetchesOn ==
    (/\ page_size # None
     /\ gen.pc = "page"
     /\ gen.idx = Len(gen.page)
     /\ Len(gen.page) = page_size
     /\ ret'.op = "next") =>
        /\ Len(fetches') = Len(fetches) + 1
        /\ Last(fetches').offset = page_offset
        /\ page_offset = Last(fetches).offset + page_size

C4_StopsAtFirstShortPage == []C4_FetchLog /\ [][C4_FullPageFetchesOn]_vars

\* C4's case: page size 2 and five entries: requests at 0, 2 and 4, the
\* third page short, the five names yielded in the server's order.
C4_Witness ==
    /\ page_size = 2
    /\ Len(server) = 5
    /\ Returned
    /\ fetches = <<[offset |-> 0, len |-> 2], [offset |-> 2, len |-> 2],
                   [offset |-> 4, len |-> 1]>>
    /\ yielded = server
    /\ complete


\* The server sent its sources inline to a load() that had asked for pages.
InlineFallback == loaded /\ legacy /\ server # <<>>

\* C5, as stated: after a load() with a page size whose response carried
\* inline sources, the page size is None for good, no iterate() requests a
\* page, and every fully drained iterate() yields the inline entries.
C5_InlineAlwaysYielded ==
    InlineFallback =>
        /\ page_size = None
        /\ fetches = <<>>
        /\ (Returned => yielded = server)

\* The last operation was a successful load().
Loaded == ret.op = "load" /\ ret.err = ""

\* C5, amended: after such a load() the page size is None for good, no
\* iterate() requests a page, the page tier right after every load() holds
\* exactly the inline entries in the order given, and every fully drained
\* iterate() yields the entries the page tier then holds: the inline entries,
\* or none after a reset() that no load() followed.
C5_InlineIngested ==
    InlineFallback =>
        /\ page_size = None
        /\ fetches = <<>>
        /\ (Loaded => page_cache = load_inline(server))
        /\ page_cache \in {load_inline(server), <<>>}
        /\ (Returned => yielded = Keys(page_cache))

\* C5's case: a catalog made with a page size, loaded from a server that sent
\* its sources inline, then fully iterated.
C5_Witness ==
    /\ InlineFallback
    /\ Len(server) > 1
    /\ page_size = None
    /\ page_cache = load_inline(server)
    /\ Returned
    /\ yielded = server

\* C6: a point lookup leaves the page tier, the offset, complete and the
\* generator as they were, so what an iteration yields does not depend on the
\* lookups made before it or between its steps; a fully drained iterate()
\* yields the names of the page tier in its order whatever was looked up, and
\* with pagination enabled that is the server's sequence.
C6_LookupKeepsIteration ==
    ret'.op = "getitem" =>
        /\ UNCHANGED <<page_cache, page_offset, complete, gen, yielded, fetches>>
        /\ ~Has(page_cache, ret'.key) => ~Has(page_cache', ret'.key)

C6_DrainAfterLookups ==
    (Returned /\ direct_cache # <<>>) =>
        /\ yielded = Keys(page_cache)
        /\ (page_size # None => yielded = server)

C6_LookupsKeepOrder ==
    []C6_DrainAfterLookups /\ [][C6_LookupKeepsIteration]_vars

\* C6's case: an iterate() was drained in the server's order over several
\* pages after a lookup had fetched a name the page tier did not hold yet.
C6_Witness ==
    /\ page_size # None
    /\ Len(server) > page_size
    /\ Returned
    /\ yielded = server
    /\ direct_cache # <<>>
    /\ direct_cache[1].origin = "fetch_by_name"

\* C7: a lookup sends a request (one) exactly when neither tier holds the
\* name; what a successful request returned is stored in the direct tier and
\* returned; a name the direct tier holds is answered from it with no request,
\* and stays in it until a reset; a name only the page tier holds is answered
\* with no request and both tiers unchanged.
C7_Lookup ==
    /\ ret'.op = "getitem" =>
        LET key == ret'.key
            inDirect == Has(direct_cache, key)
            inPage == Has(page_cache, key)
        IN  /\ ret'.reqs = (IF inDirect \/ inPage THEN 0 ELSE 1)
            /\ (~inDirect /\ ~inPage /\ ret'.err = "" =>
                  /\ ret'.val = <<Entry(key, page_size, "fetch_by_name")>>
                  /\ Has(direct_cache', key)
                  /\ Get(direct_cache', key) = ret'.val[1])
            /\ (inDirect =>
                  /\ ret'.err = ""
                  /\ ret'.val = <<Get(direct_cache, key)>>)
            /\ (inPage /\ ~inDirect =>
                  /\ ret'.err = ""
                  /\ ret'.val = <<Get(page_cache, key)>>)
            /\ (inPage \/ inDirect => UNCHANGED <<direct_cache, page_cache>>)
    /\ ret'.op \notin {"reset", "load"} =>
        \A key \in 1..MaxKey : Has(direct_cache, key) => Has(direct_cache', key)

C7_LookupFetchesOnMiss == [][C7_Lookup]_vars

\* C7's case: a lookup answered from the direct tier, where an earlier lookup
\* stored what it fetched, with no request.
C7_Witness ==
    /\ ret.op = "getitem"
    /\ ret.reqs = 0
    /\ ~Has(page_cache, ret.key)
    /\ Has(direct_cache, ret.key)
    /\ ret.val = <<Get(direct_cache, ret.key)>>

\* C8: a lookup whose request the server answers with 404 raises KeyError,
\* has sent that one request only, and leaves both tiers, the offset and
\* complete as they were; and a request for a name the server does not hold
\* is answered with 404 unless the server fails.
C8_Lookup404 ==
    /\ (ret'.op = "getitem" /\ ret'.status = 404) =>
          /\ ret'.err = "KeyError"
          /\ ret'.reqs = 1
          /\ ret'.val = <<>>
          /\ UNCHANGED <<direct_cache, page_cache, page_offset, complete>>
    /\ (ret'.op = "getitem" /\ ret'.reqs = 1 /\ ret'.key \notin Names(server)) =>
          ret'.status \in {404, 500}

C8_NotFound == [][C8_Lookup404]_vars

\* C8's case: a lookup of a name the server does not hold, on a cache that
\* holds fetched pages, ended in KeyError.
C8_Witness ==
    /\ ret.op = "getitem"
    /\ ret.status = 404
    /\ ret.err = "KeyError"
    /\ page_cache # <<>>
    /\ ~Has(page_cache, ret.key)
    /\ ~Has(direct_cache, ret.key)

\* C9, as stated: a lookup of a name the page tier holds returns the page
\* tier's entry.
C9_PageTierAuthoritative ==
    (ret.op = "getitem" /\ ret.err = "" /\ Has(page_cache, ret.key)) =>
        ret.val = <<Get(page_cache, ret.key)>>

\* C9, amended: the direct tier is looked at first.  A lookup of a name the
\* direct tier holds returns the direct tier's entry, also when a page with
\* that name has since been fetched into the page tier; the page tier answers
\* only for the names the direct tier does not hold.
C9_DirectTierFirst ==
    (ret.op = "getitem" /\ ret.err = "") =>
        IF Has(direct_cache, ret.key)
        THEN ret.val = <<Get(direct_cache, ret.key)>>
        ELSE Has(page_cache, ret.key) /\ ret.val = <<Get(page_cache, ret.key)>>

\* C9's case: a name was looked up, then delivered by a page, then looked up
\* again: both tiers hold it and the lookup returned the direct tier's entry.
C9_Witness ==
    /\ ret.op = "getitem"
    /\ ret.err = ""
    /\ Has(page_cache, ret.key)
    /\ Has(direct_cache, ret.key)
    /\ ret.val = <<Get(direct_cache, ret.key)>>
    /\ Get(direct_cache, ret.key) # Get(page_cache, ret.key)

\* The page requests a step sends: the one a suspended generator sends when it
\* is advanced, or all those of a count or a key completion, which run a
\* generator of their own.
StepRequests ==
    IF Suspended
    THEN IF Len(fetches') = Len(fetches) + 1 THEN <<Last(fetches')>> ELSE <<>>
    ELSE IF ret'.op \in {"len", "completions", "loop"} /\ ret'.reqs > 0
    THEN fetches'
    ELSE <<>>

\* C10: right after reset() both tiers are empty, the offset is 0 and
\* complete says whether the page size is None; and the first page request
\* after a reset is at offset 0.
C10_Reset ==
    /\ ret'.op = "reset" =>
          /\ page_cache' = <<>>
          /\ direct_cache' = <<>>
          /\ page_offset' = 0
          /\ complete' = (page_size' = None)
    /\ (lastPage = None /\ StepRequests # <<>>) =>
          StepRequests[1].offset = 0

C10_ResetClears == [][C10_Reset]_vars

\* C10's case: a reset() of a cache that held pages, lookups and an advanced
\* offset, on a catalog with pagination enabled.
C10_Witness ==
    /\ ret.op = "reset"
    /\ page_size # None
    /\ fetches # <<>>
    /\ Last(fetches).offset > 0
    /\ page_cache = <<>>
    /\ direct_cache = <<>>
    /\ page_offset = 0
    /\ ~complete

\* C14: a load() that fails raises AuthenticationFailure exactly when the
\* response status is 403 and RemoteCatalogError for every other failing
\* status, whatever the text of the error; and it leaves the metadata, the
\* declared length and the cache as they were.
C14_Load ==
    (ret'.op = "load" /\ ret'.status # 200) =>
        /\ ret'.err = (IF ret'.status = 403 THEN "AuthenticationFailure"
                       ELSE "RemoteCatalogError")
        /\ UNCHANGED <<metadata, len_, entries>>

C14_LoadFailure == [][C14_Load]_vars

\* C19: a page request that fails during iterate() surfaces as
\* RemoteCatalogError after that one request, ends the generator (no retry)
\* and leaves both tiers, the offset and complete as they were; every page
\* request is at the current offset, so a later iterate() asks for the failed
\* offset again.
C19_Fetch ==
    /\ (ret'.op = "next" /\ ret'.status = 500) =>
          /\ ret'.err = "RemoteCatalogError"
          /\ ret'.reqs = 1
          /\ Len(fetches') = Len(fetches) + 1
          /\ gen'.pc = "failed"
          /\ UNCHANGED entries
    /\ gen.pc = "failed" => ret'.op # "next"
    /\ StepRequests # <<>> => StepRequests[1].offset = page_offset

C19_FailedFetch == [][C19_Fetch]_vars

\* C19's case: the second page request of an iterate() failed, after the
\* first page had been merged: the cache is where the first page left it.
C19_Witness ==
    /\ page_size # None
    /\ gen.pc = "failed"
    /\ ret.err = "RemoteCatalogError"
    /\ fetches = <<[offset |-> 0, len |-> page_size],
                   [offset |-> page_size, len |-> None]>>
    /\ page_offset = page_size
    /\ Len(page_cache) = page_size
    /\ ~complete

\* C11, as stated: length() returns the declared length when there is one,
\* sending no request and leaving the cache as it is; with none it returns the
\* number of entries a fully drained iterate() produces, which is the number
\* of entries N the server holds.
C11_Len ==
    (ret'.op = "len" /\ ret'.err = "") =>
        IF len_ # None
        THEN /\ ret'.val = <<len_>>
             /\ ret'.reqs = 0
             /\ UNCHANGED <<entries, gen, fetches>>
        ELSE /\ ret'.val = <<Len(Last(drains'))>>
             /\ ret'.val = <<Len(server)>>

C11_LengthIsServerCount == [][C11_Len]_vars

\* C11, amended: length() returns the declared length when there is one,
\* sending no request and leaving the cache as it is; with none it drains an
\* iterate() and returns the number of entries that produced: the server's N
\* with pagination enabled, and the number of entries the page tier holds with
\* pagination disabled (N after a load(), none after a reset() that no load()
\* followed).
C11_LenDrained ==
    (ret'.op = "len" /\ ret'.err = "") =>
        IF len_ # None
        THEN /\ ret'.val = <<len_>>
             /\ len_ = Len(server)
             /\ ret'.reqs = 0
             /\ UNCHANGED <<entries, gen, fetches>>
        ELSE /\ ret'.val = <<Len(Last(drains'))>>
             /\ gen'.pc = "done"
             /\ (page_size # None => Last(drains') = server)
             /\ (page_size = None =>
                   /\ Last(drains') = Keys(page_cache)
                   /\ page_cache \in {load_inline(server), <<>>}
                   /\ ret'.reqs = 0)

C11_LengthIsDrainCount == [][C11_LenDrained]_vars

\* C11's case: with no declared length, length() drained a paginated catalog
\* through several pages and returned the server's count.
C11_Witness ==
    /\ ret.op = "len"
    /\ ret.err = ""
    /\ len_ = None
    /\ page_size # None
    /\ Len(fetches) > 2
    /\ ret.reqs = Len(fetches)
    /\ ret.val = <<Len(server)>>

\* The page requests the step's operation sent.
PageRequests ==
    IF ret'.op \in {"next", "loop", "len", "completions"}
    THEN SubSeq(fetches', Len(fetches') - ret'.reqs + 1, Len(fetches'))
    ELSE <<>>

\* The page tier holds the first page_offset entries of the server, in its
\* order, and they are whole pages.
WholePages(pc, offset) ==
    /\ offset <= Len(server)
    /\ Keys(pc) = SubSeq(server, 1, offset)
    /\ (offset % page_size = 0 \/ offset = Len(server))

\* The step belongs to an iterate() that follows an abandoned one: it is a
\* step of its generator, or the whole of a generator run within one operation.
Resuming ==
    \/ resumed /\ ret'.op \in {"next", "loop"}
    \/ gen.pc = "closed" /\ ret'.op \in {"len", "completions", "loop"}

\* What C12 says of the cache an abandoned iterate() leaves and of what the
\* next iterate() yields, with pagination enabled.
C12_Resumed ==
    /\ gen'.pc = "closed" => WholePages(page_cache', page_offset')
    /\ Resuming =>
          /\ yielded' = SubSeq(server, 1, Len(yielded'))
          /\ (gen'.pc = "done" => yielded' = server)
          /\ \A i \in 1..Len(PageRequests) :
                /\ PageRequests[i].offset >= page_offset
                /\ (i = 1 => PageRequests[i].offset = page_offset)
                /\ (i > 1 => PageRequests[i].offset > PageRequests[i - 1].offset)

\* C12, as stated: with pagination enabled, an abandoned iterate() leaves a
\* page tier of whole pages in the server's order and the offset at its end;
\* the next iterate() yields the server's whole sequence from the start and
\* requests only offsets at or past the one reached, none of which was
\* requested before.
C12_Resume ==
    page_size # None =>
        /\ C12_Resumed
        /\ (Resuming /\ PageRequests # <<>>) => lastPage # 0

C12_NoOffsetTwice == [][C12_Resume]_vars

\* C12, amended: the same, but for the offset N at the end of the catalog:
\* a page request never asks for an offset whose page held entries, while the
\* empty page at offset N is asked for again by every iterate() that runs
\* past the cached entries.
C12_ResumeFromOffset ==
    page_size # None =>
        /\ C12_Resumed
        /\ (Resuming /\ PageRequests # <<>> /\ lastPage = 0) =>
              /\ PageRequests = <<[offset |-> Len(server), len |-> 0]>>
                 \/ PageRequests = <<[offset |-> Len(server), len |-> None]>>
              /\ page_offset = Len(server)

C12_Resumable == [][C12_ResumeFromOffset]_vars

\* C12's case: an iterate() that followed one abandoned in the middle of a
\* fetched page yielded the whole catalog, the cached part without a request.
C12_Witness ==
    /\ page_size # None
    /\ resumed
    /\ gen.pc = "page"
    /\ yielded = server
    /\ Len(server) > 2 * page_size
    /\ fetches # <<>>
    /\ fetches[1].offset = page_size
    /\ drains = <<>>

\* C18: key completion returns normally in every state of the cache (the
\* server answering), with the names cached then, page tier first; it sends
\* at most one page request when the cache is incomplete and none when it is
\* complete.
C18_Completions ==
    (ret'.op = "completions" /\ ret'.status # 500) =>
        /\ ret'.err = ""
        /\ ret'.val = <<Keys(page_cache') \o Keys(direct_cache')>>
        /\ ret'.reqs <= 1
        /\ (complete => ret'.reqs = 0 /\ UNCHANGED entries)

C18_CompletionsReturn == [][C18_Completions]_vars

\* The first full drain from an empty cache, with a page size of 1 or more,
\* has sent floor(N / page_size) + 1 page requests.
C20_FetchCount ==
    (page_size >= 1 /\ gen.pc = "done" /\ fetches # <<>>
        /\ fetches[1].offset = 0) =>
        Len(fetches) = (Len(server) \div page_size) + 1

\* C20: for every page size (0 among them) the fetch loop of a consumed
\* iterate() ends at the first short or empty page it gets: no call of next()
\* goes round for ever, no request follows a page that held no entry, and at
\* most one request is sent for each entry and one more; and for a page size
\* of 1 or more the first full drain from an empty cache sends exactly
\* floor(N / page_size) + 1 requests.
C20_AlwaysTerminates ==
    /\ page_size # None =>
          /\ ~InLoop
          /\ \A i \in 1..(Len(fetches) - 1) : fetches[i].len \notin {0, None}
          /\ Len(fetches) <= Len(server) + 1
    /\ C20_FetchCount

\* The source-id headers among headers.
ScopeHeaders(headers) == {item \in headers : item[1] = "source-id"}

\* The headers a request of the catalog carries, as its state gives them.
OwnHeaders ==
    DictUpdate(DictUpdate(http_args.headers, auth_headers),
               IF source_id # None THEN {<<"source-id", source_id>>} ELSE {})

\* The operations of the catalog search() returned.
ChildOps == {"child.load", "child.getitem"}

\* C13: search() posts the catalog's own source_id; on success it returns a
\* new catalog that holds the source_id the server answered with (not the
\* parent's) and an empty cache of its own; every request of that catalog
\* carries that source_id, and no other, as its source-id header; and neither
\* the search nor the new catalog's requests change the parent's source_id,
\* its two tiers, offset and complete, or the headers its requests carry.
C13_Search ==
    /\ ret'.op = "search" =>
          /\ req'.kind = "search"
          /\ req'.body = source_id
          /\ req'.headers = OwnHeaders
          /\ UNCHANGED <<source_id, entries, catalog>>
          /\ OwnHeaders' = OwnHeaders
          /\ IF ret'.err = ""
             THEN /\ child'.made
                  /\ child'.source_id = ret'.key
                  /\ child'.source_id \notin {None, source_id}
                  /\ child'.entries = init_entries(None)
                  /\ ~child'.loaded
             ELSE /\ ret'.err = "RemoteCatalogError"
                  /\ UNCHANGED child
    /\ ret'.op \in ChildOps =>
          /\ child.made
          /\ child'.source_id = child.source_id
          /\ ret'.reqs = 1 =>
                ScopeHeaders(req'.headers) = {<<"source-id", child.source_id>>}
          /\ UNCHANGED <<source_id, entries, catalog, http_args>>
          /\ OwnHeaders' = OwnHeaders
    /\ (ret'.op \notin ChildOps /\ req'.kind # "none") =>
          /\ req'.headers = OwnHeaders
          /\ OwnHeaders' = OwnHeaders
          /\ ScopeHeaders(req'.headers) =
                IF source_id = None THEN {} ELSE {<<"source-id", source_id>>}

OwnParams(kind) ==
    IF kind = "info" THEN {"page_offset", "page_size"}
    ELSE IF kind = "source" THEN {"name"}
    ELSE {}

\* C17: _get_http_args leaves the http_args the catalog holds as __init__
\* stored them, headers and params alike, after any sequence of requests; so
\* a request carries the params the caller gave the catalog and those of its
\* own kind, never those of an earlier request of another kind.
C17_StoredArgsKept ==
    /\ http_args = ctor_http_args
    /\ DictKeys(req.params) \subseteq
          DictKeys(ctor_http_args.params) \cup OwnParams(req.kind)

\* The names among the last response's plugins that the registry holds.
LocalPlugins ==
    {response.plugin.names[i] :
        i \in {j \in 1..Len(response.plugin.names) :
                  response.plugin.names[j] \in plugin_registry}}

\* C15: every get() sends exactly one 'open' POST, whatever was opened
\* before; on a 2xx response the result is a direct source exactly when the
\* response names a plugin (alone or in a list) that the local registry holds,
\* made by the first such plugin of the list; in every other 2xx case it is a
\* proxy of the entry's container kind.
C15_Get ==
    ret.op = "get" =>
        /\ ret.reqs = 1
        /\ req.kind = "open"
        /\ response.status = 200 =>
              /\ ret.err = ""
              /\ Len(ret.val) = 1
              /\ ret.val[1].kind = "direct" <=> LocalPlugins # {}
              /\ ret.val[1].kind = "direct" =>
                    /\ ret.val[1].plugin \in LocalPlugins
                    /\ \A i \in 1..Len(response.plugin.names) :
                          response.plugin.names[i] \in LocalPlugins =>
                             \E j \in 1..i :
                                response.plugin.names[j] = ret.val[1].plugin
              /\ ret.val[1].kind # "direct" =>
                    /\ ret.val[1].kind = "proxy"
                    /\ ret.val[1].container = ServerContainer(ret.key)

\* Both callers' calls are over, they were for one key, and no tier held the
\* key when the first of them was made.
BothLookedUp(l) ==
    /\ \A t \in Threads : l.calls[t].pc = "done"
    /\ l.calls[1].key = l.calls[2].key
    /\ getitem_tier(l.before.direct_cache, l.before.page_cache,
                    l.calls[1].key) = "miss"

\* The entries of a tier under one name.
Under(od, key) == {i \in 1..Len(od) : od[i].name = key}

C16_Lookups ==
    LET l   == lookups'
        key == l.calls[1].key
    IN  lookups' # lookups /\ BothLookedUp(l) =>
          /\ \A t \in Threads : l.calls[t].sent <= 1
          /\ l.calls[1].sent + l.calls[2].sent <= 2
          /\ \A t \in Threads :
                /\ l.calls[t].status = 200 <=> l.calls[t].err = ""
                /\ l.calls[t].err = "" =>
                      /\ Len(l.calls[t].val) = 1
                      /\ l.calls[t].val[1].name = key
          /\ IF l.writers = <<>> THEN Under(direct_cache', key) = {}
             ELSE /\ Cardinality(Under(direct_cache', key)) = 1
                  /\ Get(direct_cache', key) = l.calls[Last(l.writers)].val[1]
          /\ page_cache' = l.before.page_cache
          /\ page_offset' = l.before.page_offset
          /\ complete' = l.before.complete

\* C16: two lookups of one uncached name that overlap at the request send at
\* most one single-entry request each (two in all); each that is answered
\* with the entry returns a record for the name; afterwards the direct tier
\* holds exactly one record for the name, the one of the caller that stored
\* last, and page tier, offset and complete are as they were.
C16_ConcurrentLookups == [][C16_Lookups]_vars

\* Both callers missed, both were answered and both stored: the direct tier
\* holds the second writer's record.
C16_Witness ==
    /\ BothLookedUp(lookups)
    /\ Len(lookups.writers) = 2
    /\ lookups.calls[1].val # lookups.calls[2].val
    /\ Has(direct_cache, lookups.calls[1].key)
    /\ Get(direct_cache, lookups.calls[1].key)
          = lookups.calls[Last(lookups.writers)].val[1]

\* C21: with pagination enabled, between the operations of one flow the page
\* offset is the number of entries of the page tier, and the page tier holds
\* exactly the first page_offset entries of the server, in the server's order.
C21_OffsetCountsPageTier ==
    page_size # None =>
        /\ page_offset = Len(page_cache)
        /\ page_offset <= Len(server)
        /\ Keys(page_cache) = SubSeq(server, 1, page_offset)

\* C21's case: a generator left after its first page, a lookup of a name of a
\* later page stored in the direct tier, and a second page merged after it.
C21_Witness ==
    /\ page_size # None
    /\ Len(page_cache) = 2 * page_size
    /\ page_offset < Len(server)
    /\ direct_cache # <<>>
    /\ gen.pc = "closed"

\* C22: of two generators alive on one Entries and advanced in any order,
\* each that is run to its end has yielded every entry of the server once, in
\* the server's order, and none raises for the other's sake; and the shared
\* offset never passes an entry that is not in the page tier.
C22_SharedIterators ==
    /\ \A t \in Threads :
          /\ gens[t].pc = "done" => gens[t].yielded = server
          /\ gens[t].err # "RuntimeError"
    /\ \A i \in 1..Len(server) : i <= page_offset => Has(page_cache, server[i])

====
